---- MODULE Spec2Model ----
(***************************************************************************)
(* A model of memcmp32_s (src/safeclib/memcmp32_s.c): the bounds-checked   *)
(* comparison of two arrays of uint32_t.  One behaviour is one call: Init  *)
(* draws the arguments and the contents of memory, and the actions are the *)
(* statements of the function in program order.                            *)
(***************************************************************************)
EXTENDS Integers, Sequences, FiniteSets, TLC

\* ------------------------------------------------------------ bounds
\* Number of elements of each caller-owned array that the model holds.
MaxLen == 3

\* ------------------------------------------------- program constants
\* RSIZE_MAX_MEM32 of safe_mem_lib.h: (256UL << 20) / 4 elements.
RSIZE_MAX_MEM32 == 67108864

\* A uint32_t is held as its two 16-bit halves <<hi, lo>> (value
\* hi * 2^16 + lo): TLC's integers are 32-bit signed and cannot hold 2^32.
\* Half is 2^16.
Half == 65536
U32(hi, lo) == <<hi, lo>>

\* errno_t values, kept symbolic.
EOK == "EOK"
ESNULLP == "ESNULLP"
ESZEROL == "ESZEROL"
ESLEMAX == "ESLEMAX"
Codes == {EOK, ESNULLP, ESZEROL, ESLEMAX}
NoCode == "none"

\* ---------------------------------------------------------- pointers
\* A pointer is an array and an element offset into it; NULL is no array.
NULL == [buf |-> "NULL", off |-> 0]
BufA == [buf |-> "A", off |-> 0]
BufB == [buf |-> "B", off |-> 0]
DiffLoc == [buf |-> "D", off |-> 0]
Bufs == {"A", "B"}

\* Element values: 3, 99 and UINT32_MAX.  They give differences inside the
\* range of int (3 - 99, 99 - 3) and outside it (UINT32_MAX - 3).
Vals == {U32(0, 3), U32(0, 99), U32(65535, 65535)}

\* What the caller's int may hold before the call: a value that is neither
\* the default the function stores nor the result of an equal comparison.
PriorDiffs == {7}

\* Declared lengths: short ones, the limit, and one above it.
Lens == (0..MaxLen) \cup {RSIZE_MAX_MEM32, RSIZE_MAX_MEM32 + 1}

VARIABLES
    mem,      \* mem[b]: the MaxLen leading elements of array b
    diffp,    \* argument diff: DiffLoc or NULL
    diff,     \* the int at DiffLoc
    dest,     \* parameter dest (advanced by the loop)
    src,      \* parameter src  (advanced by the loop)
    dmax,     \* parameter dmax (decremented by the loop)
    smax,     \* parameter smax (decremented by the loop)
    pc,       \* position in the function
    err,      \* the code of the violated constraint, once one is found
    ret,      \* the returned value, NoCode until the function returns
    handler,  \* the calls made to invoke_safe_mem_constraint_handler
    reads,    \* the element reads made: which parameter, which pointer
    iters,    \* loop bodies entered
    args      \* the arguments as passed (history)

vars == <<mem, diffp, diff, dest, src, dmax, smax, pc, err, ret, handler,
          reads, iters, args>>

\* ----------------------------------------------------------- helpers
Min(a, b) == IF a <= b THEN a ELSE b

\* RCNEGATE(x) of safeclib_private.h: (x) in the user-space build.
RCNEGATE(x) == x

\* uint32_t subtraction: modulo 2^32, the low half borrowing from the high.
SubU32(a, b) ==
    LET borrow == IF a[2] < b[2] THEN 1 ELSE 0
    IN  U32((a[1] - b[1] - borrow) % Half, (a[2] - b[2]) % Half)

\* Conversion of a uint32_t to int: int is 32 bits wide and the conversion
\* of a value above INT_MAX wraps (two's complement), as the compilers of
\* the library's platforms define it.
ToInt32(u) ==
    IF u[1] >= Half \div 2 THEN (u[1] - Half) * Half + u[2] ELSE u[1] * Half + u[2]

\* a < b and a > b as uint32_t.
LtU32(a, b) == a[1] < b[1] \/ (a[1] = b[1] /\ a[2] < b[2])
GtU32(a, b) == LtU32(b, a)

\* The operands of the subtraction exchanged.
ElemDiffSwapped(d, s) == ToInt32(SubU32(s, d))

\* *diff = *dest - *src
ElemDiff(d, s) == ToInt32(SubU32(d, s))

\* *diff = -1
DefaultDiff == 0 - 1

\* The loop bounded by dmax alone.
LoopCondDmaxOnly(dm, sm) == dm # 0

\* The loop leaving out the last element.
LoopCondOffByOne(dm, sm) == dm > 1 /\ sm > 1

\* The loop's condition.
LoopCond(dm, sm) == dm # 0 /\ sm # 0

\* The constraints on the lengths.
DmaxExceeds(dm) == dm > RSIZE_MAX_MEM32
\* smax compared with >= instead of >.
SmaxExceedsGe(sm, dm) == sm >= dm

SmaxExceeds(sm, dm) == sm > dm

\* The handler not called.
InvokeHandlerDropped(log, msg, ptr, error) == log

\* invoke_safe_mem_constraint_handler(msg, ptr, error)
InvokeHandler(log, msg, ptr, error) ==
    Append(log, [msg |-> msg, ptr |-> ptr, error |-> error])

\* The values *p may yield: the element, or anything when p is outside
\* the array (undefined behaviour).
Deref(p) ==
    IF p.buf \in Bufs /\ p.off < MaxLen THEN {mem[p.buf][p.off + 1]} ELSE Vals

\* A constraint check: on violation call the handler and go to the return
\* of the code, otherwise go on.
Check(violated, msg, code, next) ==
    IF violated
    THEN /\ handler' = InvokeHandler(handler, msg, NULL, code)
         /\ err' = code
         /\ pc' = "ret_err"
    ELSE /\ pc' = next
         /\ UNCHANGED <<handler, err>>

\* -------------------------------------------------------------- Init
Init ==
    /\ mem \in [Bufs -> [1..MaxLen -> Vals]]
    /\ diffp \in {NULL, DiffLoc}
    /\ diff \in PriorDiffs
    /\ dest \in {NULL, BufA}
    /\ src \in {NULL, BufA, BufB}
    /\ dmax \in Lens
    /\ smax \in Lens
    \* two different arrays are compared only within the modelled elements
    /\ (dest # src /\ smax <= dmax /\ dmax <= RSIZE_MAX_MEM32) => smax <= MaxLen
    /\ pc = "chk_diff"
    /\ err = NoCode
    /\ ret = NoCode
    /\ handler = <<>>
    /\ reads = {}
    /\ iters = 0
    /\ args = [diff |-> diffp, dest |-> dest, dmax |-> dmax,
               src |-> src, smax |-> smax, prior |-> diff]

\* ----------------------------------------------------------- actions
\* The default not stored.
CheckDiffNoDefault ==
    /\ pc = "chk_diff"
    /\ Check(diffp = NULL, "memcmp32_s: diff is null", ESNULLP, "chk_dest")
    /\ UNCHANGED <<mem, diffp, diff, dest, src, dmax, smax, ret, reads, iters, args>>

CheckDiff ==
    /\ pc = "chk_diff"
    /\ IF diffp = NULL
       THEN /\ handler' = InvokeHandler(handler, "memcmp32_s: diff is null",
                                        NULL, ESNULLP)
            /\ err' = ESNULLP
            /\ pc' = "ret_err"
            /\ UNCHANGED diff
       ELSE /\ diff' = DefaultDiff
            /\ pc' = "chk_dest"
            /\ UNCHANGED <<handler, err>>
    /\ UNCHANGED <<mem, diffp, dest, src, dmax, smax, ret, reads, iters, args>>

CheckDest ==
    /\ pc = "chk_dest"
    /\ Check(dest = NULL, "memcmp32_s: dest is null", ESNULLP, "chk_src")
    /\ UNCHANGED <<mem, diffp, diff, dest, src, dmax, smax, ret, reads, iters, args>>

CheckSrc ==
    /\ pc = "chk_src"
    /\ Check(src = NULL, "memcmp32_s: src is null", ESNULLP, "chk_dmax0")
    /\ UNCHANGED <<mem, diffp, diff, dest, src, dmax, smax, ret, reads, iters, args>>

CheckDmaxZero ==
    /\ pc = "chk_dmax0"
    /\ Check(dmax = 0, "memcmp32_s: dmax is 0", ESZEROL, "chk_dmaxmax")
    /\ UNCHANGED <<mem, diffp, diff, dest, src, dmax, smax, ret, reads, iters, args>>

CheckDmaxMax ==
    /\ pc = "chk_dmaxmax"
    /\ Check(DmaxExceeds(dmax), "memcmp32_s: dmax exceeds max", ESLEMAX, "chk_smax0")
    /\ UNCHANGED <<mem, diffp, diff, dest, src, dmax, smax, ret, reads, iters, args>>

CheckSmaxZero ==
    /\ pc = "chk_smax0"
    /\ Check(smax = 0, "memcmp32_s: smax is 0", ESZEROL, "chk_smaxdmax")
    /\ UNCHANGED <<mem, diffp, diff, dest, src, dmax, smax, ret, reads, iters, args>>

\* The check left out.
CheckSmaxDmaxSkipped ==
    /\ pc = "chk_smaxdmax"
    /\ pc' = "chk_same"
    /\ UNCHANGED <<mem, diffp, diff, dest, src, dmax, smax, err, ret, handler, reads, iters, args>>

CheckSmaxDmax ==
    /\ pc = "chk_smaxdmax"
    /\ Check(SmaxExceeds(smax, dmax), "memcmp32_s: smax exceeds dmax", ESLEMAX, "chk_same")
    /\ UNCHANGED <<mem, diffp, diff, dest, src, dmax, smax, ret, reads, iters, args>>

\* The same-address return left out.
CheckSameNoShortcut ==
    /\ pc = "chk_same"
    /\ diff' = 0
    /\ pc' = "loop"
    /\ UNCHANGED <<mem, diffp, dest, src, dmax, smax, err, ret, handler, reads, iters, args>>

\* if (dest == src) { *diff = 0; return EOK; }   ... *diff = 0;
CheckSame ==
    /\ pc = "chk_same"
    /\ diff' = 0
    /\ pc' = IF dest = src THEN "ret_ok" ELSE "loop"
    /\ UNCHANGED <<mem, diffp, dest, src, dmax, smax, err, ret, handler, reads, iters, args>>

\* The loop not advancing after an equal pair.
LoopStepNoAdvance ==
    /\ pc = "loop"
    /\ IF LoopCond(dmax, smax)
       THEN \E d \in Deref(dest), s \in Deref(src) :
              /\ reads' = reads \cup {[via |-> "dest", p |-> dest],
                                      [via |-> "src", p |-> src]}
              /\ IF d # s
                 THEN /\ diff' = ElemDiff(d, s)
                      /\ pc' = "ret_ok"
                      /\ iters' = iters + 1
                 ELSE /\ pc' = "loop"
                      /\ UNCHANGED <<diff, iters>>
       ELSE /\ pc' = "ret_ok"
            /\ UNCHANGED <<diff, reads, iters>>
    /\ UNCHANGED <<mem, diffp, dest, src, dmax, smax, err, ret, handler, args>>

\* One evaluation of the loop's condition and, when it holds, of its body.
LoopStep ==
    /\ pc = "loop"
    /\ IF LoopCond(dmax, smax)
       THEN \E d \in Deref(dest), s \in Deref(src) :
              /\ reads' = reads \cup {[via |-> "dest", p |-> dest],
                                      [via |-> "src", p |-> src]}
              /\ iters' = iters + 1
              /\ IF d # s
                 THEN /\ diff' = ElemDiff(d, s)
                      /\ pc' = "ret_ok"
                      /\ UNCHANGED <<dest, src, dmax, smax>>
                 ELSE /\ dmax' = dmax - 1
                      /\ smax' = smax - 1
                      /\ dest' = [dest EXCEPT !.off = @ + 1]
                      /\ src' = [src EXCEPT !.off = @ + 1]
                      /\ pc' = "loop"
                      /\ UNCHANGED diff
       ELSE /\ pc' = "ret_ok"
            /\ UNCHANGED <<diff, dest, src, dmax, smax, reads, iters>>
    /\ UNCHANGED <<mem, diffp, err, ret, handler, args>>

\* return (RCNEGATE(EOK));
ReturnOk ==
    /\ pc = "ret_ok"
    /\ ret' = RCNEGATE(EOK)
    /\ pc' = "done"
    /\ UNCHANGED <<mem, diffp, diff, dest, src, dmax, smax, err, handler, reads, iters, args>>

\* return (RCNEGATE(<the violated constraint's code>));
ReturnErr ==
    /\ pc = "ret_err"
    /\ ret' = RCNEGATE(err)
    /\ pc' = "done"
    /\ UNCHANGED <<mem, diffp, diff, dest, src, dmax, smax, err, handler, reads, iters, args>>

Next ==
    \/ CheckDiff
    \/ CheckDest
    \/ CheckSrc
    \/ CheckDmaxZero
    \/ CheckDmaxMax
    \/ CheckSmaxZero
    \/ CheckSmaxDmax
    \/ CheckSame
    \/ LoopStep
    \/ ReturnOk
    \/ ReturnErr

Spec == Init /\ [][Next]_vars

\* Termination is checked over arrays of two element values: the loop's
\* course depends on the elements only through which pairs are equal, and
\* two values give every pattern of equal and different pairs.
TwoVals == {U32(0, 3), U32(65535, 65535)}
FairInit == mem \in [Bufs -> [1..MaxLen -> TwoVals]] /\ Init

\* The function runs to its return: no step of it waits on anything.
FairSpec == FairInit /\ [][Next]_vars /\ WF_vars(Next)

\* --------------------------------- vocabulary of the claims: the call as
\* passed (args), the contract's constraints and the expected outcomes
Done == pc = "done"

\* All seven runtime constraints hold of the arguments a.
Passes(a) ==
    /\ a.diff # NULL
    /\ a.dest # NULL
    /\ a.src # NULL
    /\ a.dmax # 0
    /\ a.dmax <= RSIZE_MAX_MEM32
    /\ a.smax # 0
    /\ a.smax <= a.dmax

\* Element j (from 0) of the arrays passed as dest and as src.
DestAt(j) == mem[args.dest.buf][j + 1]
SrcAt(j) == mem[args.src.buf][j + 1]

\* The arrays are compared: the constraints hold and the addresses differ.
Compared == Passes(args) /\ args.dest # args.src

\* The indices below smax at which the two arrays differ, and the first.
Mismatches == {j \in 0..(args.smax - 1) : DestAt(j) # SrcAt(j)}
FirstMismatch == CHOOSE i \in Mismatches : \A j \in Mismatches : i <= j

\* x is the int congruent to d - s modulo 2^32 (checked half by half).
IsWrappedDifference(x, d, s) ==
    LET t == x - (d[2] - s[2])
    IN  /\ x >= (0 - 2147483647) - 1
        /\ x <= 2147483647
        /\ t % Half = 0
        /\ ((t \div Half) - (d[1] - s[1])) % Half = 0

\* The number (1..7) of the first violated constraint, 0 when none is.
FirstViolated(a) ==
    IF a.diff = NULL THEN 1
    ELSE IF a.dest = NULL THEN 2
    ELSE IF a.src = NULL THEN 3
    ELSE IF a.dmax = 0 THEN 4
    ELSE IF a.dmax > RSIZE_MAX_MEM32 THEN 5
    ELSE IF a.smax = 0 THEN 6
    ELSE IF a.smax > a.dmax THEN 7
    ELSE 0

\* The code the contract gives constraint n, and the handler's message.
CodeOf(n) ==
    CASE n = 0 -> "EOK"
      [] n \in {1, 2, 3} -> "ESNULLP"
      [] n \in {4, 6} -> "ESZEROL"
      [] n \in {5, 7} -> "ESLEMAX"
MessageOf(n) ==
    CASE n = 1 -> "memcmp32_s: diff is null"
      [] n = 2 -> "memcmp32_s: dest is null"
      [] n = 3 -> "memcmp32_s: src is null"
      [] n = 4 -> "memcmp32_s: dmax is 0"
      [] n = 5 -> "memcmp32_s: dmax exceeds max"
      [] n = 6 -> "memcmp32_s: smax is 0"
      [] n = 7 -> "memcmp32_s: smax exceeds dmax"

\* -------------------------------------------------------------- claims

\* C1: the returned code is that of the first violated constraint in the
\* order diff null, dest null, src null, dmax zero, dmax above the limit,
\* smax zero, smax above dmax (the handler's message naming that very
\* constraint), and it is EOK exactly when no constraint is violated.
C1_FirstViolationWins ==
    Done =>
        /\ ret = CodeOf(FirstViolated(args))
        /\ (ret = "EOK") <=> Passes(args)
        /\ ret # "EOK" => handler[1].msg = MessageOf(FirstViolated(args))

\* dmax == 0 with smax above the limit returns ESZEROL, and dmax above the
\* limit with smax == 0 returns ESLEMAX.
C1_Witness ==
    /\ Done
    /\ args.diff # NULL /\ args.dest # NULL /\ args.src # NULL
    /\ \/ args.dmax = 0 /\ args.smax = RSIZE_MAX_MEM32 + 1 /\ ret = "ESZEROL"
       \/ args.dmax = RSIZE_MAX_MEM32 + 1 /\ args.smax = 0 /\ ret = "ESLEMAX"

\* C2: a call that fails has called the handler exactly once, before it
\* returned, with a null context and the code it returns; a call that
\* succeeds has not called it; the handler is never called after the return.
C2_HandlerOncePerFailure ==
    /\ Len(handler) <= 1
    /\ (ret = NoCode /\ handler # <<>>) => pc = "ret_err"
    /\ (ret # NoCode /\ ret # "EOK") =>
           /\ Len(handler) = 1
           /\ handler[1].ptr = NULL
           /\ handler[1].error = ret
    /\ ret = "EOK" => handler = <<>>

\* A failed call, returned, with its one handler call.
C2_Witness ==
    /\ Done
    /\ ret = "ESLEMAX"
    /\ args.smax > args.dmax
    /\ handler = <<[msg |-> "memcmp32_s: smax exceeds dmax", ptr |-> NULL,
                    error |-> "ESLEMAX"]>>

\* C3: when the call returns a failure, the int that diff points to holds
\* -1, whatever it held before (there is no such int when diff is null).
C3_DefaultDiffOnFailure ==
    (Done /\ ret # "EOK" /\ args.diff # NULL) => diff = 0 - 1

\* dest and src equal on dmax = 2 elements, smax = 3: ESLEMAX, diff -1.
C3_Witness ==
    /\ Done
    /\ ret = "ESLEMAX"
    /\ args.dest = BufA /\ args.src = BufB
    /\ args.dmax = 2 /\ args.smax = 3
    /\ \A j \in 0..1 : DestAt(j) = SrcAt(j)
    /\ args.prior = 7
    /\ diff = 0 - 1

\* C4: when the arrays are compared and first differ, below smax, at index
\* i, the call returns EOK and diff is the int congruent to
\* dest[i] - src[i] modulo 2^32, whatever the later elements are.
C4_DiffIsWrappedDifference ==
    (Done /\ Compared /\ Mismatches # {}) =>
        /\ ret = "EOK"
        /\ IsWrappedDifference(diff, DestAt(FirstMismatch), SrcAt(FirstMismatch))

\* dest = [99, 3, 99], src = [99, 99, 3]: diff = 3 - 99 = -96.
C4_Witness ==
    /\ Done
    /\ Compared
    /\ args.dmax = 3 /\ args.smax = 3
    /\ mem[args.dest.buf] = <<U32(0, 99), U32(0, 3), U32(0, 99)>>
    /\ mem[args.src.buf] = <<U32(0, 99), U32(0, 99), U32(0, 3)>>
    /\ ret = "EOK"
    /\ diff = 0 - 96

\* C5: on success the sign of diff is the order of the first differing
\* pair as unsigned values: diff > 0 iff dest[i] > src[i], diff < 0 iff
\* dest[i] < src[i].
C5_SignIsUnsignedOrder ==
    (Done /\ Compared /\ Mismatches # {}) =>
        /\ diff > 0 <=> GtU32(DestAt(FirstMismatch), SrcAt(FirstMismatch))
        /\ diff < 0 <=> LtU32(DestAt(FirstMismatch), SrcAt(FirstMismatch))

\* C6: when the constraints hold and dest and src are the same address, the
\* call returns EOK with diff 0 and reads no element at any point.
C6_SameAddressNoRead ==
    (Passes(args) /\ args.dest = args.src) =>
        /\ reads = {}
        /\ iters = 0
        /\ Done => (ret = "EOK" /\ diff = 0)

\* The same address with lengths far beyond the array's elements.
C6_Witness ==
    /\ Done
    /\ args.dest = BufA /\ args.src = BufA
    /\ args.dmax = RSIZE_MAX_MEM32 /\ args.smax = RSIZE_MAX_MEM32
    /\ ret = "EOK"
    /\ diff = 0
    /\ reads = {}

\* C7: when the arrays are compared and agree on their first smax elements,
\* the call returns EOK with diff 0, also when dmax > smax and dest differs
\* from src at or after index smax.
C7_EqualPrefixGivesZero ==
    (Done /\ Compared /\ Mismatches = {}) => (ret = "EOK" /\ diff = 0)

\* smax = 2 < dmax = 3, equal on two elements and different at the third.
C7_Witness ==
    /\ Done
    /\ Compared
    /\ args.smax = 2 /\ args.dmax = 3
    /\ Mismatches = {}
    /\ DestAt(2) # SrcAt(2)
    /\ iters = 2
    /\ ret = "EOK"
    /\ diff = 0

\* C8: an element is read only when all seven constraints hold, through
\* dest in dest's array and through src in src's, at an index below smax
\* (= min(dmax, smax)) and not above the first mismatch.
C8_ReadsWithinBounds ==
    \A r \in reads :
        /\ Passes(args)
        /\ r.p.buf = (IF r.via = "dest" THEN args.dest.buf ELSE args.src.buf)
        /\ r.p.off >= 0
        /\ r.p.off < Min(args.dmax, args.smax)
        /\ r.p.off < args.smax
        /\ Mismatches # {} => r.p.off <= FirstMismatch

\* A comparison that read up to its first mismatch and left the rest.
C8_Witness ==
    /\ Done
    /\ Compared
    /\ args.smax = 3
    /\ Mismatches = {1, 2}
    /\ reads = {[via |-> "dest", p |-> [buf |-> "A", off |-> 0]],
                [via |-> "src", p |-> [buf |-> "B", off |-> 0]],
                [via |-> "dest", p |-> [buf |-> "A", off |-> 1]],
                [via |-> "src", p |-> [buf |-> "B", off |-> 1]]}

\* C9: every call returns a code, and the loop body is entered at most
\* min(dmax, smax) times, each time stopping or taking one from both
\* remaining counts.
C9_Terminates ==
    /\ <>(Done /\ ret \in Codes)
    /\ [](iters <= Min(args.dmax, args.smax))
    /\ [][pc = "loop" =>
            \/ pc' = "ret_ok"
            \/ /\ iters' = iters + 1
               /\ dmax' = dmax - 1 /\ smax' = smax - 1
               /\ dmax' >= 0 /\ smax' >= 0]_vars

\* A call that went through the whole of the shorter length and returned.
C9_Witness ==
    /\ Done
    /\ ret = "EOK"
    /\ args.dmax = RSIZE_MAX_MEM32 /\ args.smax = MaxLen
    /\ iters = MaxLen
    /\ smax = 0

\* C10: on success diff is 0 exactly when dest and src are the same
\* address or agree on their first smax elements.
C10_ZeroIffEqual ==
    (Done /\ ret = "EOK") =>
        (diff = 0 <=> (args.dest = args.src \/ Mismatches = {}))

\* Arrays differing only in their last compared element, UINT32_MAX
\* against 3: diff is not 0.
C10_Witness ==
    /\ Done
    /\ Compared
    /\ args.smax = MaxLen
    /\ Mismatches = {MaxLen - 1}
    /\ DestAt(MaxLen - 1) = U32(65535, 65535)
    /\ SrcAt(MaxLen - 1) = U32(0, 3)
    /\ ret = "EOK"
    /\ diff # 0

====
